---- MODULE Spec2Model ----
(***************************************************************************)
(* PlaylistRX (src/PlaylistRX.py): the remote-call executor of             *)
(* SpotifyConnection (_call_with_timeout, _withRetry, the api call         *)
(* counter) and the paged fetches built on it.                             *)
(*                                                                         *)
(* Spec / FairSpec : one foreground path issuing _withRetry calls, each    *)
(*                   attempt run on a daemon thread that the foreground    *)
(*                   joins with a deadline.                                *)
(* PageSpec        : the paged fetches over a remote listing.              *)
(* BatchSpec       : the batched and per-entity fetches (getTracksInfo,    *)
(*                   getArtistsTopTracks, getArtistsAlbums,                *)
(*                   getAlbumsTracks), each logical call ending in a       *)
(*                   result or in an error.                                *)
(* WeightSpec      : the weighted filter applied to one track, by the      *)
(*                   radio generator and by master curation.               *)
(* RunSpec         : one run of main without remote failures: the counts,  *)
(*                   generateRadio, master curation and the writes to the  *)
(*                   two playlists.                                        *)
(* FaultSpec       : the same run, where a required operation can fail     *)
(*                   after its retries.                                    *)
(***************************************************************************)
EXTENDS Integers, Sequences, FiniteSets, TLC

VARIABLES
    \* ---- the executor (SpotifyConnection._withRetry) ----
    pc,            \* foreground position: "idle", "loop" (line 54), "join" (line 39)
    calls,         \* number of _withRetry calls started so far
    retryCount,    \* local retryCount of the running call (line 52)
    attempts,      \* how often the running call invoked _call_with_timeout
    awaited,       \* the thread the foreground started last (line 36)
    alive,         \* threads of the running call whose target() has not finished
    strays,        \* number of still running threads left behind by earlier calls
    abandoned,     \* running threads whose join ran into its deadline (line 41)
    cells,         \* the result / exception lists of the frame being joined (27-28)
    lastErr,       \* error of the latest attempt when it failed, NoErr otherwise
    sleptSince,    \* the time.sleep durations since the latest failed attempt
    outcome,       \* how the latest call ended: returned a value or raised
    apiCallCount,  \* self.apiCallCount (line 23)
    returned,      \* calls that returned a result since the last reset
    effects,       \* attempts of the running call that completed remotely
    \* ---- the paged fetches ----
    fetch,         \* which fetch runs, and the source it runs against
    ppc,           \* position of the fetch: "start", "page" (a page is held), "done"
    page,          \* the page held in `results`
    trackIds,      \* the list the fetch accumulates (trackIds / allIds)
    offset,        \* the offset of getLikedTracks / getUserTopTracks
    requests,      \* page requests issued so far
    found,         \* what getPlaylistIdByName returns (0: None)
    \* ---- the batched and per-entity fetches ----
    job,           \* which fetch runs, its argument and the remote catalog
    bpc,           \* position of the fetch: "start", "loop", "done", "raised"
    work,          \* validTrackIds / the list being walked
    bi,            \* the loop offset i
    bj,            \* the position j inside the chunk at offset i
    info,          \* the mapping the fetch builds (info, allTopTracks, ...)
    sent,          \* the arguments of the logical calls issued, in order
    failed,        \* the positions in `sent` of the calls that raised
    \* ---- the weighted filter on one track ----
    track,         \* the track's records, the configuration and the context
    wpc,           \* position in the filter
    weight,        \* weight, in units of 1/ModDen
    included,      \* the decision, once wpc = "decided"
    \* ---- one run of main ----
    scen,          \* the configuration and what the remote source holds
    rpc,           \* position of the run
    playlists,     \* current contents of "[RX] Radio" and "[RX] Master"
    writes,        \* the modifying calls issued so far, in order
    radioTracks,   \* generateRadio's combined list
    chosen,        \* the artists generateRadio sampled
    ci,            \* index of the artist being processed
    ti,            \* index of the top track being filtered
    eligibleSongs, \* the pool of the artist being processed
    picks,         \* per processed artist: its pool and what was selected
    trackMap,      \* main's entries keyed by "name - artist", in loop order
    mi,            \* index of the entry being curated
    selected,      \* main's included tracks
    decisions,     \* per curated entry: track, weight and outcome
    pending,       \* the list addTracksToPlaylist is writing
    ai,            \* offset of its next batch
    raised         \* the required operation that failed, and the state then

rvars == <<pc, calls, retryCount, attempts, awaited, alive, strays, abandoned, cells,
           lastErr, sleptSince, outcome, apiCallCount, returned, effects>>
pvars == <<fetch, ppc, page, trackIds, offset, requests, found>>
bvars == <<job, bpc, work, bi, bj, info, sent, failed>>
wvars == <<track, wpc, weight, included>>
gvars == <<scen, rpc, playlists, writes, radioTracks, chosen, ci, ti, eligibleSongs,
           picks, trackMap, mi, selected, decisions, pending, ai, raised>>
vars == <<rvars, pvars, bvars, wvars, gvars>>
exceptExecutor == <<pvars, bvars, wvars, gvars>>
exceptPages == <<rvars, bvars, wvars, gvars>>
exceptBatches == <<rvars, pvars, wvars, gvars>>
exceptWeight == <<rvars, pvars, bvars, gvars>>
exceptRun == <<rvars, pvars, bvars, wvars>>

----------------------------------------------------------------------------
(* Bounds of the model *)

MaxCalls == 2        \* _withRetry calls per run
MaxRetryAfter == 2   \* largest Retry-After value the service sends
MaxItems == 101      \* largest number of items a remote listing holds
SmallPage == 7       \* a page size below every limit the fetches ask for
MaxRequests == 4     \* page requests followed against a source that never ends

(* Program constants *)

maxRetries == 5          \* line 51
ServiceUnavailableSleep == 5   \* line 79
ServerErrorSleep == 10         \* line 84
DefaultRetryAfter == 1         \* line 70
PlaylistsLimit == 50           \* line 105
PlaylistLimit == 100           \* line 134
LikedLimit == 50               \* line 156
TopLimit == 50                 \* lines 175, 177
DefaultMaxTracks == 200        \* lines 170, 623

----------------------------------------------------------------------------
(* Values *)

NoThread == <<0, 0>>

\* Threads are named <<call, attempt>>. The threads an earlier call left
\* behind are only counted (strays); StrayThread stands for any of them.
StrayThread == <<0, 1>>

\* e.headers of a SpotifyException: None, a mapping without Retry-After, or
\* a mapping whose Retry-After is d seconds.
NoHeaders == [kind |-> "none", d |-> 0]
NoRetryAfter == [kind |-> "empty", d |-> 0]
Headers == {NoHeaders, NoRetryAfter}
             \cup {[kind |-> "retryAfter", d |-> d] : d \in 1..MaxRetryAfter}

Statuses == {404, 429, 500, 503}

Err(cls, status, hdr, att) == [cls |-> cls, status |-> status, hdr |-> hdr, att |-> att]
NoErr == Err("None", 0, NoHeaders, 0)

\* What func(*args, **kwargs) can raise inside target() on attempt att.
FuncErrors(att) ==
    {Err("SpotifyException", s, h, att) : s \in Statuses, h \in Headers}
    \cup {Err("TimeoutError", 0, NoHeaders, att), Err("Unexpected", 0, NoHeaders, att)}

EmptyCell == [result |-> NoThread, exception |-> NoErr]

\* What target() leaves in its frame's lists: the result of thread t, or the
\* exception func raised.
TargetOutcomes(t) ==
    {[result |-> t, exception |-> NoErr]}
    \cup {[result |-> NoThread, exception |-> e] : e \in FuncErrors(t[2])}

NoOutcome == [kind |-> "none", value |-> NoThread, err |-> NoErr]
Returned(v) == [kind |-> "return", value |-> v, err |-> NoErr]
Raised(e) == [kind |-> "raise", value |-> NoThread, err |-> e]

----------------------------------------------------------------------------
(* _call_with_timeout, lines 25-48 *)

\* Variant: one result / exception pair shared by all invocations.
CellOfShared(t) == NoThread

\* result = [None]; exception = [None] are locals of one invocation: every
\* attempt has lists of its own, which only its own thread's closure writes.
CellOf(t) == t

\* Variant: the is_alive() test is left out, the lists are read at once.
ThreadFinishedUnchecked(t) == TRUE

\* thread.join(timeout) came back and thread.is_alive() is False (line 41).
ThreadFinished(t) == t \notin alive

\* Variant: thread.join() without a timeout never comes back early.
DeadlineNever(t) == FALSE

\* thread.join(timeout) came back at the deadline: is_alive() is True.
DeadlineExpires(t) == t \in alive

\* raise TimeoutError(...) of line 43, on attempt att.
JoinTimeoutError(att) == Err("TimeoutError", 0, NoHeaders, att)

----------------------------------------------------------------------------
(* The except clauses of _withRetry, lines 59-99 *)

\* int(e.headers.get("Retry-After", 1)), line 70 (headers is a mapping here).
RetryAfter(hdr) == IF hdr.kind = "retryAfter" THEN hdr.d ELSE DefaultRetryAfter

\* Variant: the >= 500 test comes before the 503 test.
HandlerSleepsServerFirst(e) ==
    IF e.cls # "SpotifyException" THEN <<>>
    ELSE IF e.status = 429
         THEN IF e.hdr.kind = "none" THEN <<>> ELSE <<RetryAfter(e.hdr)>>
    ELSE IF e.status >= 500 THEN <<ServerErrorSleep>>
    ELSE IF e.status = 503 THEN <<ServiceUnavailableSleep>>
    ELSE <<>>

\* The time.sleep calls the handler of error e makes, in order.
HandlerSleeps(e) ==
    IF e.cls # "SpotifyException" THEN <<>>
    ELSE IF e.status = 429
         THEN IF e.hdr.kind = "none" THEN <<>> ELSE <<RetryAfter(e.hdr)>>
    ELSE IF e.status = 503 THEN <<ServiceUnavailableSleep>>
    ELSE IF e.status >= 500 THEN <<ServerErrorSleep>>
    ELSE <<>>

\* What leaves the handler of error e once retryCount has become rc: the
\* error raised out of _withRetry, or NoErr when the loop goes on.
HandlerRaises(e, rc) ==
    IF e.cls = "SpotifyException" /\ e.status = 429
    THEN \* e.headers is None: None.get raises inside the except clause
         IF e.hdr.kind = "none" THEN Err("AttributeError", 0, NoHeaders, e.att) ELSE NoErr
    ELSE IF e.cls = "SpotifyException" /\ (e.status = 503 \/ e.status >= 500)
    THEN NoErr
    ELSE \* TimeoutError, other SpotifyException, Exception: bare raise at the cap
         IF rc >= maxRetries THEN e ELSE NoErr

\* raise Exception(f"Failed after {maxRetries} attempts"), line 102.
FailedAfter == Err("Failed", 0, NoHeaders, 0)

\* Variant: every attempt of the call is counted.
CountOnSuccessAttempts(n) == n + attempts

\* self.apiCallCount += 1, line 57.
CountOnSuccess(n) == n + 1

\* One pass through an except clause for error e.
Handle(e) ==
    /\ retryCount' = retryCount + 1
    /\ lastErr' = e
    /\ sleptSince' = HandlerSleeps(e)
    /\ IF HandlerRaises(e, retryCount + 1) # NoErr
       THEN /\ outcome' = Raised(HandlerRaises(e, retryCount + 1))
            /\ pc' = "idle"
       ELSE /\ outcome' = outcome
            /\ pc' = "loop"
    /\ UNCHANGED <<apiCallCount, returned>>

----------------------------------------------------------------------------
(* Actions of the executor *)

\* A caller enters _withRetry (lines 50-52).
WithRetryBegin ==
    /\ pc = "idle"
    /\ calls < MaxCalls
    /\ calls' = calls + 1
    /\ retryCount' = 0
    /\ attempts' = 0
    /\ pc' = "loop"
    /\ lastErr' = NoErr
    /\ sleptSince' = <<>>
    /\ outcome' = NoOutcome
    /\ effects' = 0
    \* the frames of the call before are gone; its threads run on
    /\ awaited' = NoThread
    /\ cells' = [k \in {NoThread} |-> EmptyCell]
    /\ strays' = strays + Cardinality(alive)
    /\ alive' = {}
    /\ abandoned' = {}
    /\ UNCHANGED <<apiCallCount, returned>>
    /\ UNCHANGED exceptExecutor

\* while retryCount < maxRetries: _call_with_timeout starts the thread
\* (lines 54-56, 27-38).
StartAttempt ==
    /\ pc = "loop"
    /\ retryCount < maxRetries
    /\ LET t == <<calls, attempts + 1>>
       IN /\ attempts' = attempts + 1
          /\ awaited' = t
          /\ alive' = alive \cup {t}
          /\ cells' = [k \in {CellOf(t)} |-> EmptyCell]
    /\ pc' = "join"
    /\ lastErr' = NoErr
    /\ sleptSince' = <<>>
    /\ UNCHANGED <<calls, retryCount, strays, abandoned, outcome, apiCallCount, returned,
                   effects>>
    /\ UNCHANGED exceptExecutor

\* The loop condition fails: line 102.
LoopExit ==
    /\ pc = "loop"
    /\ retryCount >= maxRetries
    /\ outcome' = Raised(FailedAfter)
    /\ pc' = "idle"
    /\ UNCHANGED <<calls, retryCount, attempts, awaited, alive, strays, abandoned, cells,
                   lastErr, sleptSince, apiCallCount, returned, effects>>
    /\ UNCHANGED exceptExecutor

\* target() of thread t finishes (lines 30-34): it stores into the lists of
\* its own frame, which are garbage once that frame has been left.
TargetRun(t, o) ==
    /\ t \in alive
    /\ alive' = alive \ {t}
    /\ abandoned' = abandoned \ {t}
    /\ cells' = IF CellOf(t) \in DOMAIN cells
                THEN [cells EXCEPT ![CellOf(t)] = o]
                ELSE cells
    /\ effects' = IF o.exception = NoErr THEN effects + 1 ELSE effects
    /\ UNCHANGED <<pc, calls, retryCount, attempts, awaited, strays, lastErr, sleptSince,
                   outcome, apiCallCount, returned>>
    /\ UNCHANGED exceptExecutor

\* target() of a thread left behind by an earlier call finishes.
StrayRun(o) ==
    /\ strays > 0
    /\ strays' = strays - 1
    /\ cells' = IF CellOf(StrayThread) \in DOMAIN cells
                THEN [cells EXCEPT ![CellOf(StrayThread)] = o]
                ELSE cells
    /\ UNCHANGED <<pc, calls, retryCount, attempts, awaited, alive, abandoned, lastErr,
                   sleptSince, outcome, apiCallCount, returned, effects>>
    /\ UNCHANGED exceptExecutor

\* join came back with the thread finished (lines 41-48), then lines 57-58
\* or the except clause for what was raised.
JoinReturns ==
    /\ pc = "join"
    /\ ThreadFinished(awaited)
    /\ LET cell == cells[CellOf(awaited)]
       IN IF cell.exception # NoErr
          THEN Handle(cell.exception)
          ELSE /\ apiCallCount' = CountOnSuccess(apiCallCount)
               /\ returned' = returned + 1
               /\ outcome' = Returned(cell.result)
               /\ pc' = "idle"
               /\ UNCHANGED <<retryCount, lastErr, sleptSince>>
    /\ UNCHANGED <<calls, attempts, awaited, alive, strays, abandoned, cells, effects>>
    /\ UNCHANGED exceptExecutor

\* join came back at the deadline with the thread still running (lines
\* 41-43): the thread is left behind, TimeoutError goes to line 59.
JoinTimeout ==
    /\ pc = "join"
    /\ DeadlineExpires(awaited)
    /\ abandoned' = abandoned \cup {awaited}
    /\ Handle(JoinTimeoutError(attempts))
    /\ UNCHANGED <<calls, attempts, awaited, alive, strays, cells, effects>>
    /\ UNCHANGED exceptExecutor

\* resetApiCallCount, lines 406-408.
ResetApiCallCount ==
    /\ pc = "idle"
    /\ apiCallCount' = 0
    /\ returned' = 0
    /\ UNCHANGED <<pc, calls, retryCount, attempts, awaited, alive, strays, abandoned,
                   cells, lastErr, sleptSince, outcome, effects>>
    /\ UNCHANGED exceptExecutor

ExecutorIdle ==
    /\ pc = "idle"
    /\ calls = 0
    /\ retryCount = 0
    /\ attempts = 0
    /\ awaited = NoThread
    /\ alive = {}
    /\ strays = 0
    /\ abandoned = {}
    /\ cells = [k \in {NoThread} |-> EmptyCell]
    /\ lastErr = NoErr
    /\ sleptSince = <<>>
    /\ outcome = NoOutcome
    /\ apiCallCount = 0
    /\ returned = 0
    /\ effects = 0

NoFetch ==
    [name |-> "none", kind |-> "good", N |-> 0, P |-> 1, maxTracks |-> 0,
     hole |-> 0, target |-> 0]
NoPage == [items |-> <<>>, next |-> FALSE, cursor |-> 0]

PagesIdle ==
    /\ fetch = NoFetch
    /\ ppc = "done"
    /\ page = NoPage
    /\ trackIds = <<>>
    /\ offset = 0
    /\ requests = 0
    /\ found = 0

NoJob == [name |-> "none", input |-> <<>>, unknown |-> 0]

BatchesIdle ==
    /\ job = NoJob
    /\ bpc = "done"
    /\ work = <<>>
    /\ bi = 0
    /\ bj = 0
    /\ info = <<>>
    /\ sent = <<>>
    /\ failed = {}

NoRank == -1

NoTrack ==
    [context |-> "none", count |-> 0, pos |-> NoRank, mnum |-> 0,
     removeByWeight |-> FALSE, artistIHearTooMuch |-> FALSE,
     artistListed |-> FALSE, artistCount |-> 0]

WeightIdle ==
    /\ track = NoTrack
    /\ wpc = "decided"
    /\ weight = 0
    /\ included = FALSE

NoScenario ==
    [numberOfRadioArtists |-> 0, radioArtistSongs |-> 0,
     removeRadioSongsByWeight |-> FALSE, includeRadioInMaster |-> FALSE,
     includeDiscoverWeeklyInRadio |-> FALSE, artistIHearTooMuch |-> FALSE,
     artistBlacklist |-> FALSE, excludedWords |-> <<>>, masterSongs |-> 0,
     mnum |-> 0, tooMuch |-> <<>>, sources |-> <<>>, top |-> <<>>,
     discover |-> <<>>, master |-> <<>>, radio |-> <<>>]

NoRaise == [op |-> "none", writes |-> 0, playlists |-> [radio |-> <<>>, master |-> <<>>]]

RunIdle ==
    /\ scen = NoScenario
    /\ raised = NoRaise
    /\ rpc = "done"
    /\ playlists = [radio |-> <<>>, master |-> <<>>]
    /\ writes = <<>>
    /\ radioTracks = <<>>
    /\ chosen = <<>>
    /\ ci = 0
    /\ ti = 0
    /\ eligibleSongs = <<>>
    /\ picks = <<>>
    /\ trackMap = <<>>
    /\ mi = 0
    /\ selected = <<>>
    /\ decisions = <<>>
    /\ pending = <<>>
    /\ ai = 0

Init ==
    /\ ExecutorIdle
    /\ PagesIdle
    /\ BatchesIdle
    /\ WeightIdle
    /\ RunIdle

Foreground == StartAttempt \/ LoopExit \/ JoinReturns \/ JoinTimeout

Next ==
    \/ WithRetryBegin
    \/ StartAttempt
    \/ LoopExit
    \/ \E t \in alive : \E o \in TargetOutcomes(t) : TargetRun(t, o)
    \/ \E o \in TargetOutcomes(StrayThread) : StrayRun(o)
    \/ JoinReturns
    \/ JoinTimeout
    \/ ResetApiCallCount

Spec == Init /\ [][Next]_vars

\* join(timeout) and time.sleep return: the foreground always takes its next
\* step. Nothing makes a background operation finish.
FairSpec == Spec /\ WF_vars(Foreground)

----------------------------------------------------------------------------
(* Properties of the executor *)

CallFailed == pc = "idle" /\ outcome.kind = "raise"
CallReturned == pc = "idle" /\ outcome.kind = "return"

\* The latest thing the running call did was to handle a failed attempt.
JustFailed == pc \in {"loop", "idle"} /\ lastErr # NoErr

\* A background thread finished in this step.
BackgroundStep ==
    /\ pc' = pc
    /\ calls' = calls
    /\ \/ (alive' \subseteq alive /\ alive' # alive)
       \/ strays' < strays

C2_ExhaustionCarriesLastError ==
    (CallFailed /\ attempts = 5) => outcome.err = lastErr

\* C3: apiCallCount equals the number of calls that returned a result since
\* the last reset; failed attempts and failed calls add nothing.
C3_CountIsReturnedCalls == apiCallCount = returned

\* a failed call, then a call that returned on its third attempt: count 1
C3_Witness ==
    /\ calls = 2
    /\ CallReturned
    /\ attempts = 3
    /\ apiCallCount = 1

\* C4: every call eventually returns or fails, also when no operation ever
\* completes: each attempt is given up at its deadline.
C4_CallTerminates == (pc # "idle") ~> (pc = "idle")

\* five attempts timed out, none of the five operations has finished
C4_Witness ==
    /\ CallFailed
    /\ outcome.err.cls = "TimeoutError"
    /\ Cardinality(alive) = 5
    /\ abandoned = alive

\* C5: what a thread produces after its attempt timed out is discarded: a
\* call returns the result of the attempt it joined last, a finishing
\* thread changes neither apiCallCount nor the call's outcome, and only the
\* awaited thread writes the lists the foreground reads.
C5_LateResultsDiscarded ==
    /\ [](outcome.kind = "return" => outcome.value = awaited)
    /\ [][BackgroundStep =>
            /\ apiCallCount' = apiCallCount
            /\ outcome' = outcome
            /\ (cells' # cells => (awaited \in alive /\ awaited \notin alive'))]_vars

\* attempt 1 timed out and completed late, attempt 2 returned: count 1
C5_Witness ==
    /\ CallReturned
    /\ attempts = 2
    /\ effects = 2
    /\ awaited = <<calls, 2>>
    /\ apiCallCount = 1

\* C6 as stated: at most one remote operation is in flight at any moment,
\* and a logical call takes effect remotely at most once.
C6_AtMostOneInFlight ==
    /\ Cardinality(alive) + strays <= 1
    /\ effects <= 1

\* C6 as amended: besides the one operation the foreground waits for, only
\* operations abandoned at their deadline are in flight; a new attempt or
\* call starts only once the attempt before finished or timed out.
C6_OnlyAbandonedBesideAwaited ==
    /\ alive \ abandoned \subseteq (IF pc = "join" THEN {awaited} ELSE {})
    /\ abandoned \subseteq alive

\* a retry is being awaited while an abandoned attempt is still running
C6_Witness ==
    /\ pc = "join"
    /\ awaited \in alive
    /\ abandoned # {}
    /\ Cardinality(alive) >= 2

C8_DelayByFailureClass ==
    (pc = "loop" /\ lastErr # NoErr /\ retryCount < 5)
    => /\ lastErr.cls \in {"TimeoutError", "Unexpected"} => sleptSince = <<>>
       /\ lastErr.cls = "SpotifyException" =>
            /\ lastErr.status = 503 => sleptSince = <<5>>
            /\ (lastErr.status >= 500 /\ lastErr.status # 503) => sleptSince = <<10>>
            /\ (lastErr.status >= 400 /\ lastErr.status < 500 /\ lastErr.status # 429)
                 => sleptSince = <<>>

\* a 503 that carried a Retry-After header was followed by a sleep of 5
C8_Witness ==
    /\ pc = "loop"
    /\ retryCount < 5
    /\ lastErr.status = 503
    /\ lastErr.hdr.kind = "retryAfter"
    /\ sleptSince = <<5>>

----------------------------------------------------------------------------
(* The paged fetches, lines 104-193.  Every page request is one _withRetry  *)
(* call that returns; the remote listing is the fetch's input.              *)

Min(a, b) == IF a <= b THEN a ELSE b
Max(a, b) == IF a >= b THEN a ELSE b
Ceil(n, d) == (n + d - 1) \div d

\* The remote listings a fetch can meet.  kind "good": N items, numbered in
\* source order, served at most P to a page, a continuation on every page
\* but the last.  kind "emptyNext": every page carries a continuation and no
\* items.  hole: the position of an item without a track id (0: none).
\* target: the position of the playlist whose name is asked for (0: none).
PageSizes == {SmallPage, LikedLimit, PlaylistLimit}
TopMaxTracks == {TopLimit, TopLimit + 20, 2 * TopLimit, DefaultMaxTracks}

Listing(name, kind, N, P, maxTracks, hole, target) ==
    [name |-> name, kind |-> kind, N |-> N, P |-> P, maxTracks |-> maxTracks,
     hole |-> hole, target |-> target]

Fetches ==
    {Listing(n, "good", N, P, 0, h, 0) :
        n \in {"getPlaylistTracks", "getLikedTracks"},
        N \in 0..MaxItems, P \in PageSizes, h \in {0, 1}}
    \cup {Listing("getUserTopTracks", "good", N, P, m, 0, 0) :
        N \in 0..MaxItems, P \in PageSizes, m \in TopMaxTracks}
    \cup {Listing("getPlaylistIdByName", "good", N, P, 0, 0, t) :
        N \in 0..MaxItems, P \in PageSizes, t \in {0, 1, SmallPage + 1}}
    \cup {Listing(n, "emptyNext", 0, SmallPage, m, 0, 0) :
        n \in {"getPlaylistTracks", "getLikedTracks", "getPlaylistIdByName"}, m \in {0}}
    \cup {Listing("getUserTopTracks", "emptyNext", 0, SmallPage, DefaultMaxTracks, 0, 0)}

\* The items of the listing: item["track"]["id"], 0 where the item has none.
Items(f) == [i \in 1..f.N |-> IF i = f.hole THEN 0 ELSE i]

\* The page the remote source serves for (offset, limit).
Serve(f, off, limit) ==
    IF f.kind = "emptyNext"
    THEN [items |-> <<>>, next |-> TRUE, cursor |-> off]
    ELSE LET n == Max(0, Min(Min(limit, f.P), f.N - off))
         IN [items |-> SubSeq(Items(f), off + 1, off + n),
             next |-> off + n < f.N,
             cursor |-> off + n]

\* track = item.get("track"); if track and track.get("id"), lines 140-142
\* and 161-163.
HasId(x) == x # 0
ExtractIds(items) == SelectSeq(items, HasId)

\* Variant: a page that is exactly full ends the fetch as well.
TopShortPageInclusive(n, limit) == n <= limit

\* if len(items) < limitPerRequest: break, line 190.
TopShortPage(n, limit) == n < limit

\* self._withRetry(self.client.playlist_items, ..., limit=100, ...), 131-137.
PlaylistTracksStart ==
    /\ fetch.name = "getPlaylistTracks"
    /\ ppc = "start"
    /\ page' = Serve(fetch, 0, PlaylistLimit)
    /\ requests' = requests + 1
    /\ ppc' = "page"
    /\ UNCHANGED <<fetch, trackIds, offset, found>>
    /\ UNCHANGED exceptPages

\* One pass of `while results:`, lines 138-146 (a page dict is truthy).
PlaylistTracksLoop ==
    /\ fetch.name = "getPlaylistTracks"
    /\ ppc = "page"
    /\ trackIds' = trackIds \o ExtractIds(page.items)
    /\ IF page.next
       THEN /\ (fetch.kind = "emptyNext" => requests < MaxRequests)
            /\ page' = Serve(fetch, page.cursor, PlaylistLimit)
            /\ requests' = requests + 1
            /\ ppc' = "page"
       ELSE /\ ppc' = "done"
            /\ UNCHANGED <<page, requests>>
    /\ UNCHANGED <<fetch, offset, found>>
    /\ UNCHANGED exceptPages

\* self._withRetry(self.client.current_user_playlists, limit=50), line 105.
PlaylistIdStart ==
    /\ fetch.name = "getPlaylistIdByName"
    /\ ppc = "start"
    /\ page' = Serve(fetch, 0, PlaylistsLimit)
    /\ requests' = requests + 1
    /\ ppc' = "page"
    /\ UNCHANGED <<fetch, trackIds, offset, found>>
    /\ UNCHANGED exceptPages

\* One pass of `while results:`, lines 106-114.
PlaylistIdLoop ==
    /\ fetch.name = "getPlaylistIdByName"
    /\ ppc = "page"
    /\ IF \E i \in 1..Len(page.items) : page.items[i] = fetch.target
       THEN /\ found' = fetch.target
            /\ ppc' = "done"
            /\ UNCHANGED <<page, requests>>
       ELSE IF page.next
       THEN /\ (fetch.kind = "emptyNext" => requests < MaxRequests)
            /\ page' = Serve(fetch, page.cursor, PlaylistsLimit)
            /\ requests' = requests + 1
            /\ ppc' = "page"
            /\ found' = found
       ELSE /\ ppc' = "done"
            /\ UNCHANGED <<page, requests, found>>
    /\ UNCHANGED <<fetch, trackIds, offset>>
    /\ UNCHANGED exceptPages

\* One pass of `while True:`, lines 155-166.
LikedLoop ==
    /\ fetch.name = "getLikedTracks"
    /\ ppc \in {"start", "page"}
    /\ LET results == Serve(fetch, offset, LikedLimit)
       IN /\ page' = results
          /\ requests' = requests + 1
          /\ IF results.items = <<>>
             THEN /\ ppc' = "done"
                  /\ UNCHANGED <<trackIds, offset>>
             ELSE /\ trackIds' = trackIds \o ExtractIds(results.items)
                  /\ offset' = offset + Len(results.items)
                  /\ ppc' = "page"
    /\ UNCHANGED <<fetch, found>>
    /\ UNCHANGED exceptPages

\* One pass of `for offset in range(0, maxTracks, 50):`, lines 175-191.
TopLoop ==
    /\ fetch.name = "getUserTopTracks"
    /\ ppc \in {"start", "page"}
    /\ offset < fetch.maxTracks
    /\ LET limitPerRequest == Min(TopLimit, fetch.maxTracks - offset)
           results == Serve(fetch, offset, limitPerRequest)
       IN /\ page' = results
          /\ requests' = requests + 1
          /\ IF results.items = <<>>
             THEN /\ ppc' = "done"
                  /\ UNCHANGED <<trackIds, offset>>
             ELSE /\ trackIds' = trackIds \o results.items
                  /\ IF TopShortPage(Len(results.items), limitPerRequest)
                     THEN ppc' = "done" /\ offset' = offset
                     ELSE ppc' = "page" /\ offset' = offset + TopLimit
    /\ UNCHANGED <<fetch, found>>
    /\ UNCHANGED exceptPages

\* The range of line 175 is used up.
TopLoopEnd ==
    /\ fetch.name = "getUserTopTracks"
    /\ ppc \in {"start", "page"}
    /\ offset >= fetch.maxTracks
    /\ ppc' = "done"
    /\ UNCHANGED <<fetch, page, trackIds, offset, requests, found>>
    /\ UNCHANGED exceptPages

PageInit ==
    /\ ExecutorIdle
    /\ RunIdle
    /\ BatchesIdle
    /\ WeightIdle
    /\ fetch \in Fetches
    /\ ppc = "start"
    /\ page = NoPage
    /\ trackIds = <<>>
    /\ offset = 0
    /\ requests = 0
    /\ found = 0

PageNext ==
    \/ PlaylistTracksStart
    \/ PlaylistTracksLoop
    \/ PlaylistIdStart
    \/ PlaylistIdLoop
    \/ LikedLoop
    \/ TopLoop
    \/ TopLoopEnd

PageSpec == PageInit /\ [][PageNext]_vars

----------------------------------------------------------------------------
(* Properties of the paged fetches *)

\* C9: once a paged fetch (getPlaylistTracks, getPlaylistIdByName,
\* getLikedTracks) has received a page without items it issues no further
\* request, continuation or not: against a source whose pages all carry a
\* continuation and no items it stops instead of requesting forever.
C9_NoRequestAfterEmptyPage ==
    [][(fetch.name \in {"getPlaylistTracks", "getPlaylistIdByName", "getLikedTracks"}
          /\ ppc = "page" /\ page.items = <<>>)
       => requests' = requests]_vars

FetchDone == ppc = "done" /\ fetch.kind = "good"

\* the ids of the first n items
FirstIds(n) == [i \in 1..n |-> i]

MaxFailures == 2        \* logical calls that fail within one fetch
DupPeriod == 60         \* an input list repeats its ids after this many
ExtraEntities == 1      \* entities beyond one full progress chunk

batchSize == 50
ProgressChunk == 20

\* The error classes a logical call can end with (lines 64-102).
CallErrors == {"SpotifyException", "TimeoutError", "Unexpected", "AttributeError", "Failed"}
CallOutcomes == {"ok"} \cup CallErrors

\* except SpotifyException / except Exception: the two clauses of every
\* fetch here catch each class; the mutation keeps the first clause only.
CaughtFirstClauseOnly(cls) == cls = "SpotifyException"
Caught(cls) == cls \in CallErrors

EmptyMap == [x \in {} |-> 0]
Put(m, k, v) == [x \in DOMAIN m \cup {k} |-> IF x = k THEN v ELSE m[x]]
Range(s) == {s[k] : k \in DOMAIN s}

\* The argument lists: position k holds id ((k-1) % period) + 1, or 0 (None,
\* not a usable id) at every gap-th position when gap > 0.
IdList(len, period, gap) ==
    [k \in 1..len |-> IF gap > 0 /\ k % gap = 0 THEN 0 ELSE ((k - 1) % period) + 1]

\* line 201: tid and isinstance(tid, str) and len(tid) > 0
IsValidIdAlways(tid) == TRUE
IsValidId(tid) == tid # 0

\* validTrackIds[i:i+batchSize], artistIds[i:i+20]
Slice(s, i, n) == SubSeq(s, i + 1, Min(i + n, Len(s)))

\* What the remote source holds for a track id: the track object, its first
\* artist being its primary artist; some tracks carry no artist.
RemoteTrack(id) ==
    [id |-> id, name |-> id,
     artists |-> IF id % 7 = 0 THEN <<>>
                 ELSE <<[name |-> ToString(id % 7), id |-> id % 7]>>]
NullTrack == [id |-> 0, name |-> 0, artists |-> <<>>]

\* results["tracks"] of client.tracks(batch): one entry per id asked for,
\* None for an id the remote source does not resolve.
TracksResponse(batch, unknown) ==
    [k \in 1..Len(batch) |-> IF batch[k] = unknown THEN NullTrack ELSE RemoteTrack(batch[k])]

\* lines 223-231: the tuple stored for a track (artistId 0: None)
Metadata(t) ==
    IF t.artists # <<>>
    THEN [name |-> t.name, artistName |-> t.artists[1].name, artistId |-> t.artists[1].id]
    ELSE [name |-> t.name, artistName |-> "Unknown", artistId |-> 0]

\* lines 221-232: for t in results["tracks"]: if t: info[t["id"]] = (...);
\* a later entry of the response overwrites an earlier one with the same id
StoreTracks(m, tracks) ==
    LET stored == {k \in DOMAIN tracks : tracks[k] # NullTrack}
        ids == {tracks[k].id : k \in stored}
        lastOf(id) == CHOOSE k \in stored :
                         /\ tracks[k].id = id
                         /\ \A l \in stored : tracks[l].id = id => l <= k
    IN [id \in DOMAIN m \cup ids |->
            IF id \in ids THEN Metadata(tracks[lastOf(id)]) ELSE m[id]]

TracksInfoJobs ==
    {[name |-> "getTracksInfo", input |-> IdList(len, period, gap), unknown |-> u] :
        len \in 0..MaxItems, period \in {DupPeriod, MaxItems}, gap \in {0, 1, 3}, u \in {0, 2}}

\* lines 196-208
TracksInfoBegin ==
    /\ bpc = "start"
    /\ job.name = "getTracksInfo"
    /\ LET validTrackIds == SelectSeq(job.input, IsValidId) IN
         /\ work' = validTrackIds
         /\ bpc' = IF Len(validTrackIds) = 0 THEN "done" ELSE "loop"
    /\ bi' = 0
    /\ UNCHANGED <<job, bj, info, sent, failed>>
    /\ UNCHANGED exceptBatches

\* lines 212-245: one turn of the loop over the batches
TracksInfoBatch(o) ==
    /\ bpc = "loop"
    /\ job.name = "getTracksInfo"
    /\ bi < Len(work)
    /\ o # "ok" => Cardinality(failed) < MaxFailures
    /\ LET batch == Slice(work, bi, batchSize) IN
         /\ sent' = Append(sent, batch)
         /\ IF o = "ok"
            THEN /\ info' = StoreTracks(info, TracksResponse(batch, job.unknown))
                 /\ bi' = bi + batchSize
                 /\ UNCHANGED <<failed, bpc>>
            ELSE /\ failed' = failed \cup {Len(sent) + 1}
                 /\ IF Caught(o)
                    THEN bi' = bi + batchSize /\ bpc' = bpc
                    ELSE bi' = bi /\ bpc' = "raised"
                 /\ info' = info
    /\ UNCHANGED <<job, work, bj>>
    /\ UNCHANGED exceptBatches

\* lines 246-247
TracksInfoReturn ==
    /\ bpc = "loop"
    /\ job.name = "getTracksInfo"
    /\ bi >= Len(work)
    /\ bpc' = "done"
    /\ UNCHANGED <<job, work, bi, bj, info, sent, failed>>
    /\ UNCHANGED exceptBatches

FanNames == {"getArtistsTopTracks", "getArtistsAlbums", "getAlbumsTracks"}

\* results["tracks"] / results["items"] of the call for one entity: the
\* items the remote source lists for it (none for some entities).
EntityItems(name, entity) == [k \in 1..(entity % 3) |-> 10 * entity + k]

\* lines 290, 295, 329, 334, 359, 364: allTopTracks[artistId] = []
RecordFailureNoKey(m, entity) == m
RecordFailure(m, entity) == Put(m, entity, <<>>)

FanJobs ==
    {[name |-> n, input |-> IdList(len, period, 0), unknown |-> 0] :
        n \in FanNames,
        len \in {0, 1, 2, ProgressChunk, ProgressChunk + ExtraEntities},
        period \in {2, DupPeriod}}

\* lines 266-268, 305-307, 340-342
FanBegin ==
    /\ bpc = "start"
    /\ job.name \in FanNames
    /\ work' = job.input
    /\ bpc' = "loop"
    /\ bi' = 0
    /\ bj' = 0
    /\ UNCHANGED <<job, info, sent, failed>>
    /\ UNCHANGED exceptBatches

\* lines 273-296, 309-334, 344-364: the call for the entity at position j of
\* the chunk at offset i
FanCall(o) ==
    /\ bpc = "loop"
    /\ job.name \in FanNames
    /\ bi < Len(work)
    /\ o # "ok" => Cardinality(failed) < MaxFailures
    /\ LET batch == Slice(work, bi, ProgressChunk)
           entity == batch[bj + 1]
           last == bj + 1 >= Len(batch)
       IN
         /\ sent' = Append(sent, <<entity>>)
         /\ IF o = "ok"
            THEN /\ info' = Put(info, entity, EntityItems(job.name, entity))
                 /\ UNCHANGED <<failed, bpc>>
            ELSE /\ failed' = failed \cup {Len(sent) + 1}
                 /\ IF Caught(o)
                    THEN info' = RecordFailure(info, entity) /\ bpc' = bpc
                    ELSE info' = info /\ bpc' = "raised"
         /\ IF o = "ok" \/ Caught(o)
            THEN /\ bj' = IF last THEN 0 ELSE bj + 1
                 /\ bi' = IF last THEN bi + ProgressChunk ELSE bi
            ELSE UNCHANGED <<bi, bj>>
    /\ UNCHANGED <<job, work>>
    /\ UNCHANGED exceptBatches

\* lines 300-301, 335-336, 365-366
FanReturn ==
    /\ bpc = "loop"
    /\ job.name \in FanNames
    /\ bi >= Len(work)
    /\ bpc' = "done"
    /\ UNCHANGED <<job, work, bi, bj, info, sent, failed>>
    /\ UNCHANGED exceptBatches

BatchInit ==
    /\ ExecutorIdle
    /\ RunIdle
    /\ PagesIdle
    /\ WeightIdle
    /\ job \in TracksInfoJobs \cup FanJobs
    /\ bpc = "start"
    /\ work = <<>>
    /\ bi = 0
    /\ bj = 0
    /\ info = EmptyMap
    /\ sent = <<>>
    /\ failed = {}

BatchNext ==
    \/ TracksInfoBegin
    \/ \E o \in CallOutcomes : TracksInfoBatch(o)
    \/ TracksInfoReturn
    \/ FanBegin
    \/ \E o \in CallOutcomes : FanCall(o)
    \/ FanReturn

BatchSpec == BatchInit /\ [][BatchNext]_vars

\* C11: when the logical call for a batch of getTracksInfo fails, with any
\* error class, the fetch does not abort: every batch of the valid ids is
\* still requested, each once and in order, and the result holds the
\* metadata of exactly the ids of the batches that did not fail (those the
\* remote source resolved), so no entry for an id that occurs only in a
\* failed batch.
C11_FailedBatchSkipped ==
    job.name = "getTracksInfo" =>
        /\ bpc # "raised"
        /\ bpc = "done" =>
            LET valid == SelectSeq(job.input, IsValidId)
                okBatches == (1..Len(sent)) \ failed
            IN
              /\ sent = [k \in 1..Ceil(Len(valid), batchSize) |->
                            Slice(valid, (k - 1) * batchSize, batchSize)]
              /\ DOMAIN info =
                    {id \in UNION {Range(sent[k]) : k \in okBatches} : id # job.unknown}
              /\ \A id \in DOMAIN info : info[id] = Metadata(RemoteTrack(id))

\* the first of three batches failed: ids that occur only in it are absent,
\* ids that a later batch repeats are present
C11_Witness ==
    /\ job.name = "getTracksInfo"
    /\ bpc = "done"
    /\ failed = {1}
    /\ Len(sent) = 3
    /\ \E id \in Range(sent[1]) : id \notin DOMAIN info
    /\ \E id \in Range(sent[1]) : id \in DOMAIN info
    /\ Range(sent[3]) \subseteq DOMAIN info

\* the position of the last call issued for an entity
LastCallFor(entity) ==
    CHOOSE k \in 1..Len(sent) :
        /\ sent[k] = <<entity>>
        /\ \A l \in (k + 1)..Len(sent) : sent[l] # <<entity>>

\* C12: getArtistsTopTracks, getArtistsAlbums and getAlbumsTracks issue
\* exactly one logical call per input entity, in input order, whatever calls
\* fail, and never abort; the mapping returned has a key for every input
\* entity, holding the fetched items when the entity's call succeeded and
\* the empty list when it failed.
C12_OneCallPerEntityEmptyOnFailure ==
    job.name \in FanNames =>
        /\ bpc # "raised"
        /\ bpc = "done" =>
              /\ sent = [k \in 1..Len(job.input) |-> <<job.input[k]>>]
              /\ DOMAIN info = Range(job.input)
              /\ \A entity \in DOMAIN info :
                    info[entity] = IF LastCallFor(entity) \in failed THEN <<>>
                                   ELSE EntityItems(job.name, entity)

\* more entities than one progress chunk, the call of one entity with items
\* failed and a later call succeeded
C12_Witness ==
    /\ job.name \in FanNames
    /\ bpc = "done"
    /\ Len(sent) > ProgressChunk
    /\ \E k \in failed :
          /\ k < Len(sent)
          /\ EntityItems(job.name, sent[k][1]) # <<>>
          /\ info[sent[k][1]] = <<>>
          /\ (k + 1) \notin failed
          /\ info[sent[k + 1][1]] = EntityItems(job.name, sent[k + 1][1])

(***************************************************************************)
(* The weighted filter.  The weight modifier is the rational mnum / ModDen *)
(* and a weight is held in units of 1/ModDen; the uniform draw of          *)
(* random.random() is d / DrawDen with 0 <= d < DrawDen.                   *)
(***************************************************************************)
ModDen == 2             \* modifiers are multiples of 1/ModDen
MaxMod == 4             \* the largest modifier numerator
MaxNegMod == 2          \* the largest numerator of a negative modifier
MaxCount == 4           \* occurrences of one track in the overplayed playlist
DrawDen == 4            \* draws are multiples of 1/DrawDen

FullWeight == 10
TopBand == 50
MidBand == 100
LowBand == 200
ArtistHigh == 6
ArtistLow == 3

\* lines 491-497, 712-718: multiples of the modifier taken off for the
\* occurrences in the overplayed playlist
OverplayFactor(count) ==
    IF count = 1 THEN 5
    ELSE IF count = 2 THEN 7
    ELSE IF count >= 3 THEN 9
    ELSE 0

\* lines 498-505, 719-726: for the position among the top tracks
RankFactor(pos) ==
    IF pos = NoRank THEN 0
    ELSE IF pos < TopBand THEN 5
    ELSE IF pos < MidBand THEN 4
    ELSE IF pos < LowBand THEN 3
    ELSE 0

\* lines 738-742
ArtistFactor(artistCount) ==
    IF artistCount >= ArtistHigh THEN 3
    ELSE IF artistCount >= ArtistLow THEN 2
    ELSE 0

\* line 506: max(0, min(10, weight))
Clamp(w) == Max(0, Min(FullWeight * ModDen, w))

\* lines 507, 745: random.random() < weight / 10
IncludedInclusive(d, w) == d * FullWeight * ModDen <= w * DrawDen
Included(d, w) == d * FullWeight * ModDen < w * DrawDen

Positions == {NoRank, 0, 10, TopBand - 1, TopBand, MidBand - 1, MidBand, LowBand - 1}
Modifiers == (0 - MaxNegMod)..MaxMod

RadioTracks ==
    {[context |-> "radio", count |-> c, pos |-> p, mnum |-> m,
      removeByWeight |-> rbw, artistIHearTooMuch |-> FALSE,
      artistListed |-> FALSE, artistCount |-> 0] :
        c \in 0..MaxCount, p \in Positions, m \in Modifiers, rbw \in BOOLEAN}

MasterTracks ==
    {[context |-> "master", count |-> c, pos |-> p, mnum |-> m,
      removeByWeight |-> FALSE, artistIHearTooMuch |-> aih,
      artistListed |-> al, artistCount |-> ac] :
        c \in 0..MaxCount, p \in Positions, m \in Modifiers, aih \in BOOLEAN,
        al \in BOOLEAN, ac \in {0, ArtistLow - 1, ArtistLow, ArtistHigh - 1, ArtistHigh}}

\* line 489 with removeByWeight off: the track is eligible without a draw
RadioUnfiltered ==
    /\ wpc = "start"
    /\ track.context = "radio"
    /\ ~track.removeByWeight
    /\ included' = TRUE
    /\ wpc' = "decided"
    /\ UNCHANGED <<track, weight>>
    /\ UNCHANGED exceptWeight

\* lines 490-497, 711-718
WeightOverplay ==
    /\ wpc = "start"
    /\ track.context = "radio" => track.removeByWeight
    /\ weight' = FullWeight * ModDen - OverplayFactor(track.count) * track.mnum
    /\ wpc' = "rank"
    /\ UNCHANGED <<track, included>>
    /\ UNCHANGED exceptWeight

\* lines 498-505, 719-726
WeightRank ==
    /\ wpc = "rank"
    /\ weight' = weight - RankFactor(track.pos) * track.mnum
    /\ wpc' = IF track.context = "radio" THEN "clamp" ELSE "artist"
    /\ UNCHANGED <<track, included>>
    /\ UNCHANGED exceptWeight

\* line 506, radio only
WeightClamp ==
    /\ wpc = "clamp"
    /\ weight' = Clamp(weight)
    /\ wpc' = "draw"
    /\ UNCHANGED <<track, included>>
    /\ UNCHANGED exceptWeight

\* lines 729-743, master only
WeightArtist ==
    /\ wpc = "artist"
    /\ weight' = IF track.artistIHearTooMuch /\ track.artistListed
                 THEN weight - ArtistFactor(track.artistCount) * track.mnum
                 ELSE weight
    /\ wpc' = "draw"
    /\ UNCHANGED <<track, included>>
    /\ UNCHANGED exceptWeight

\* lines 507-508, 745
WeightDraw(d) ==
    /\ wpc = "draw"
    /\ included' = Included(d, weight)
    /\ wpc' = "decided"
    /\ UNCHANGED <<track, weight>>
    /\ UNCHANGED exceptWeight

WeightInit ==
    /\ ExecutorIdle
    /\ RunIdle
    /\ PagesIdle
    /\ BatchesIdle
    /\ track \in RadioTracks \cup MasterTracks
    /\ wpc = "start"
    /\ weight = 0
    /\ included = FALSE

WeightNext ==
    \/ RadioUnfiltered
    \/ WeightOverplay
    \/ WeightRank
    \/ WeightClamp
    \/ WeightArtist
    \/ \E d \in 0..(DrawDen - 1) : WeightDraw(d)

WeightSpec == WeightInit /\ [][WeightNext]_vars

\* The weight the draw of a track is compared with, as the two code paths
\* compute it.
RadioWeightRankless(count, pos, mnum) ==
    Clamp(FullWeight * ModDen - OverplayFactor(count) * mnum)
RadioWeight(count, pos, mnum) ==
    Clamp(FullWeight * ModDen - OverplayFactor(count) * mnum - RankFactor(pos) * mnum)
MasterWeight(count, pos, mnum, deduct, artistCount) ==
    FullWeight * ModDen - OverplayFactor(count) * mnum - RankFactor(pos) * mnum
        - (IF deduct THEN ArtistFactor(artistCount) * mnum ELSE 0)
UsedWeight(t, count) ==
    IF t.context = "radio" THEN RadioWeight(count, t.pos, t.mnum)
    ELSE MasterWeight(count, t.pos, t.mnum,
                      t.artistIHearTooMuch /\ t.artistListed, t.artistCount)

Drawing == wpc \in {"draw", "decided"} /\ ~(track.context = "radio" /\ ~track.removeByWeight)

\* C13: the weight that feeds the inclusion draw lies in [0, 10], in the
\* radio filter and in master curation, whatever the overplay count, the
\* rank, the modifier and the features are.
C13_WeightWithinRange ==
    Drawing => weight >= 0 /\ weight <= FullWeight * ModDen

\* C14: for every modifier and every fixed rank the weight used for
\* inclusion does not increase with the overplay count, in the radio filter
\* and in master curation.
C14_WeightNonIncreasingInCount ==
    Drawing =>
        /\ weight = UsedWeight(track, track.count)
        /\ \A c \in 0..MaxCount : c > track.count => weight >= UsedWeight(track, c)

\* C15: the filter is deterministic at the extremes, for every draw: a track
\* of weight 0 (or below) is never included, as is the track with overplay
\* count 3, top rank 10 and modifier 1; a track of weight 10 is always
\* included, and a track with no overplay record, no top-rank entry and no
\* artist deduction has weight 10.
C15_DeterministicAtExtremes ==
    (wpc = "decided" /\ Drawing) =>
        /\ weight <= 0 => ~included
        /\ weight >= FullWeight * ModDen => included
        /\ (track.count = 3 /\ track.pos = 10 /\ track.mnum = ModDen) => ~included
        /\ (track.count = 0 /\ track.pos = NoRank
              /\ ~(track.artistIHearTooMuch /\ track.artistListed
                     /\ track.artistCount >= ArtistLow))
            => weight = FullWeight * ModDen /\ included

\* the radio filter clamped the example track to weight 0 and dropped it
C15_Witness ==
    /\ wpc = "decided"
    /\ track.context = "radio"
    /\ track.removeByWeight
    /\ track.count = 3 /\ track.pos = 10 /\ track.mnum = ModDen
    /\ weight = 0
    /\ ~included

(***************************************************************************)
(* One run of main, every remote call succeeding.  Texts are sequences of  *)
(* one-character strings; track and artist ids are numbers, 0 standing for *)
(* None.                                                                   *)
(***************************************************************************)
ShuffleBound == 1       \* random.shuffle yields one of ShuffleBound + 1 orders
DiscoverExtra == 1      \* the long discovery list exceeds one add batch by this

AddBatch == 100
DefaultMasterSongs == 1000
DefaultRadioArtists == 5
DefaultRadioArtistSongs == 10
BlacklistAt == 10
TooMuchAt == 3

\* str.lower() on the letters that occur
LowerChar(c) ==
    CASE c = "A" -> "a" [] c = "E" -> "e" [] c = "G" -> "g" [] c = "H" -> "h"
      [] c = "I" -> "i" [] c = "K" -> "k" [] c = "L" -> "l" [] c = "N" -> "n"
      [] c = "S" -> "s" [] c = "U" -> "u" [] c = "V" -> "v" [] c = "Y" -> "y"
      [] c = "Z" -> "z" [] OTHER -> c
Lower(s) == [k \in 1..Len(s) |-> LowerChar(s[k])]

\* needle in hay
Contains(hay, needle) ==
    \E k \in 0..(Len(hay) - Len(needle)) : SubSeq(hay, k + 1, k + Len(needle)) = needle

\* lines 392-400
isTitleExcluded(title, excludedWords) ==
    IF excludedWords = <<>> \/ title = <<>> THEN FALSE
    ELSE \E w \in Range(excludedWords) : Contains(Lower(title), Lower(w))

\* What the remote source knows: the tracks, their titles and primary
\* artists (0: the track lists no artist), the artists' names and the top
\* tracks it reports for an artist.  Tracks 2 and 3 share title and artist;
\* track 9 is reported among the top tracks of artist 3 but its primary
\* artist is artist 1.
TrackIds == 1..9
Title(tid) ==
    CASE tid = 1 -> <<"L", "i", "v", "e">>
      [] tid = 2 -> <<"S", "o">>
      [] tid = 3 -> <<"S", "o">>
      [] tid = 4 -> <<"U", "p">>
      [] tid = 5 -> <<"G", "o">>
      [] tid = 6 -> <<"N", "o">>
      [] tid = 7 -> <<"A", "L", "I", "V", "E">>
      [] tid = 8 -> <<"H", "i">>
      [] OTHER -> <<"Y", "o">>
PrimaryArtist(tid) ==
    CASE tid \in {1, 2, 3, 8, 9} -> 1
      [] tid = 4 -> 2
      [] tid \in {5, 7} -> 3
      [] OTHER -> 0
ArtistName(a) ==
    CASE a = 1 -> <<"K", "a">>
      [] a = 2 -> <<"k", "a", "y">>
      [] a = 3 -> <<"Z", "o">>
      [] OTHER -> <<"U", "n", "k", "n", "o", "w", "n">>
ArtistTopTracks(a) ==
    CASE a = 1 -> <<1, 2, 8>>
      [] a = 2 -> <<4>>
      [] a = 3 -> <<5, 7, 9>>
      [] OTHER -> <<>>

\* getTracksInfo on a run without failures: (name, artistName, artistId) for
\* every id (lines 223-231)
TrackInfo(tid) ==
    [name |-> Title(tid), artistName |-> ArtistName(PrimaryArtist(tid)),
     artistId |-> PrimaryArtist(tid)]

RECURSIVE Ascending(_)
Ascending(S) ==
    IF S = {} THEN <<>>
    ELSE LET m == CHOOSE x \in S : \A y \in S : x <= y
         IN <<m>> \o Ascending(S \ {m})
Reverse(s) == [k \in 1..Len(s) |-> s[Len(s) + 1 - k]]
Occurrences(s, x) == Cardinality({k \in DOMAIN s : s[k] = x})

\* random.shuffle: some permutation of the list; the rotations stand for them
Rotate(s, r) == [k \in 1..Len(s) |-> s[((k - 1 + r) % Len(s)) + 1]]
Shuffles(s) == {Rotate(s, r) : r \in 0..ShuffleBound}

\* random.sample(population, k): k entries at distinct positions, any order
SamplesWithReplacement(population, k) ==
    {[i \in 1..k |-> population[p[i]]] : p \in [1..k -> DOMAIN population]}
Samples(population, k) ==
    {[i \in 1..k |-> population[p[i]]] :
        p \in {q \in [1..k -> DOMAIN population] :
                  \A i, j \in 1..k : i # j => q[i] # q[j]}}

\* lines 623-629
topPositions(sc) == [tid \in Range(sc.top) |->
                        (CHOOSE k \in DOMAIN sc.top :
                            sc.top[k] = tid /\ \A l \in DOMAIN sc.top : sc.top[l] = tid => l <= k) - 1]
tooMuchCounts(sc) == [tid \in Range(sc.tooMuch) |-> Occurrences(sc.tooMuch, tid)]
PositionOf(sc, tid) == IF tid \in DOMAIN topPositions(sc) THEN topPositions(sc)[tid] ELSE NoRank
CountOf(sc, tid) == IF tid \in DOMAIN tooMuchCounts(sc) THEN tooMuchCounts(sc)[tid] ELSE 0

RECURSIVE SumCounts(_, _)
SumCounts(sc, S) ==
    IF S = {} THEN 0
    ELSE LET x == CHOOSE y \in S : TRUE IN CountOf(sc, x) + SumCounts(sc, S \ {x})

\* lines 650-656: occurrences in the overplayed playlist per artist name
artistNameCounts(sc, name) ==
    SumCounts(sc, {tid \in Range(sc.tooMuch) : TrackInfo(tid).artistName = name})

\* lines 632-668
CountsBuilt(sc) == (sc.artistIHearTooMuch \/ sc.artistBlacklist) /\ sc.tooMuch # <<>>
artistTooMuch(sc) ==
    IF CountsBuilt(sc) /\ sc.artistIHearTooMuch
    THEN {TrackInfo(tid).artistId : tid \in
            {t \in Range(sc.tooMuch) :
                /\ TrackInfo(t).artistId # 0
                /\ artistNameCounts(sc, TrackInfo(t).artistName) >= TooMuchAt}}
    ELSE {}
artistBlacklistNames(sc) ==
    IF CountsBuilt(sc) /\ sc.artistBlacklist
    THEN {name \in {TrackInfo(tid).artistName : tid \in Range(sc.tooMuch)} :
            artistNameCounts(sc, name) >= BlacklistAt}
    ELSE {}

\* lines 463-468, 700-705
isBlacklisted(sc, artistName) ==
    /\ sc.artistBlacklist
    /\ \E blacklistedName \in artistBlacklistNames(sc) :
          Contains(Lower(artistName), Lower(blacklistedName))

\* lines 443-449: the artists of the master playlist's tracks
artistMapKeys(sc) == {TrackInfo(tid).artistId : tid \in Range(sc.master)} \ {0}

\* line 694: f"{n} - {a}"
TrackKey(tid) == TrackInfo(tid).name \o <<" ", "-", " ">> \o TrackInfo(tid).artistName

\* line 694: the dict comprehension over allInfo in its order: a key keeps
\* the place of its first track and the value of its last
BuildTrackMap(order) ==
    LET firsts == SelectSeq([k \in DOMAIN order |-> k],
                            LAMBDA k : \A l \in 1..(k - 1) : TrackKey(order[l]) # TrackKey(order[k]))
        lastWith(key) == CHOOSE k \in DOMAIN order :
                            /\ TrackKey(order[k]) = key
                            /\ \A l \in DOMAIN order : TrackKey(order[l]) = key => l <= k
    IN [i \in DOMAIN firsts |-> order[lastWith(TrackKey(order[firsts[i]]))]]

\* lines 733-736: the occurrences summed over the tracks of allInfo
artistCount(sc, artistId) ==
    SumCounts(sc, {tid \in Range(sc.sources) :
                      TrackInfo(tid).artistId = artistId /\ tid \in DOMAIN tooMuchCounts(sc)})

\* lines 729-731
ArtistDeducted(sc, tid) ==
    sc.artistIHearTooMuch /\ TrackInfo(tid).artistId \in artistTooMuch(sc)

Repeat(x, n) == [k \in 1..n |-> x]

\* The overplayed playlist with the two artist features and the modifier.
OverplaySettings ==
    {[tooMuch |-> <<>>, artistIHearTooMuch |-> FALSE, artistBlacklist |-> FALSE, mnum |-> ModDen],
     [tooMuch |-> Repeat(2, TooMuchAt), artistIHearTooMuch |-> TRUE, artistBlacklist |-> FALSE, mnum |-> ModDen],
     [tooMuch |-> Repeat(8, ArtistHigh), artistIHearTooMuch |-> TRUE, artistBlacklist |-> TRUE, mnum |-> 1],
     [tooMuch |-> Repeat(1, BlacklistAt - 1) \o <<2>>, artistIHearTooMuch |-> TRUE, artistBlacklist |-> TRUE, mnum |-> ModDen],
     [tooMuch |-> Repeat(1, BlacklistAt), artistIHearTooMuch |-> FALSE, artistBlacklist |-> FALSE, mnum |-> ModDen],
     [tooMuch |-> <<5, 4, 4>>, artistIHearTooMuch |-> FALSE, artistBlacklist |-> TRUE, mnum |-> ModDen]}

\* The radio options, the discovery playlist (empty: none found) and what
\* the two generated playlists hold from the previous run.
RadioSettings ==
    {[numberOfRadioArtists |-> DefaultRadioArtists, radioArtistSongs |-> DefaultRadioArtistSongs,
      removeRadioSongsByWeight |-> FALSE, includeDiscoverWeeklyInRadio |-> FALSE,
      discover |-> <<>>, master |-> <<1, 4, 5>>, radio |-> <<>>],
     [numberOfRadioArtists |-> 1, radioArtistSongs |-> 1,
      removeRadioSongsByWeight |-> TRUE, includeDiscoverWeeklyInRadio |-> TRUE,
      discover |-> <<1, 5>>, master |-> <<1, 5>>, radio |-> <<9>>],
     [numberOfRadioArtists |-> DefaultRadioArtists, radioArtistSongs |-> DefaultRadioArtistSongs,
      removeRadioSongsByWeight |-> TRUE, includeDiscoverWeeklyInRadio |-> TRUE,
      discover |-> IdList(AddBatch + DiscoverExtra, 9, 0), master |-> <<4>>, radio |-> <<9>>],
     [numberOfRadioArtists |-> 1, radioArtistSongs |-> DefaultRadioArtistSongs,
      removeRadioSongsByWeight |-> FALSE, includeDiscoverWeeklyInRadio |-> TRUE,
      discover |-> <<>>, master |-> <<2, 6>>, radio |-> <<9, 9>>],
     [numberOfRadioArtists |-> DefaultRadioArtists, radioArtistSongs |-> 1,
      removeRadioSongsByWeight |-> TRUE, includeDiscoverWeeklyInRadio |-> FALSE,
      discover |-> <<1, 5>>, master |-> <<4, 5, 6>>, radio |-> <<>>]}

\* The master options, the tracks of the source playlists and the top tracks.
MasterSettings ==
    {[includeRadioInMaster |-> FALSE, masterSongs |-> DefaultMasterSongs, excludedWords |-> <<>>,
      sources |-> <<1, 2, 3, 4, 5, 6>>, top |-> <<>>],
     [includeRadioInMaster |-> TRUE, masterSongs |-> DefaultMasterSongs,
      excludedWords |-> << <<"L", "I", "V", "E">> >>,
      sources |-> <<1, 2, 4, 5, 4>>, top |-> <<5>>],
     [includeRadioInMaster |-> TRUE, masterSongs |-> 2, excludedWords |-> <<>>,
      sources |-> <<1, 2, 3, 4, 5, 6>>, top |-> <<>>],
     [includeRadioInMaster |-> FALSE, masterSongs |-> DefaultMasterSongs,
      excludedWords |-> << <<"l", "i", "v", "e">> >>,
      sources |-> <<>>, top |-> <<2>>]}

Scenarios ==
    {[numberOfRadioArtists |-> r.numberOfRadioArtists, radioArtistSongs |-> r.radioArtistSongs,
      removeRadioSongsByWeight |-> r.removeRadioSongsByWeight,
      includeRadioInMaster |-> m.includeRadioInMaster,
      includeDiscoverWeeklyInRadio |-> r.includeDiscoverWeeklyInRadio,
      artistIHearTooMuch |-> o.artistIHearTooMuch, artistBlacklist |-> o.artistBlacklist,
      excludedWords |-> m.excludedWords, masterSongs |-> m.masterSongs, mnum |-> o.mnum,
      tooMuch |-> o.tooMuch, sources |-> m.sources, top |-> m.top,
      discover |-> r.discover, master |-> r.master, radio |-> r.radio] :
        o \in OverplaySettings, r \in RadioSettings, m \in MasterSettings}

\* line 250: playlist_replace_items(items=[])
ClearedKeeps(items) == items
Cleared(items) == <<>>

\* lines 759-761: selected[:masterSongs] when the list is longer
TruncateNever(s, n) == s
Truncate(s, n) ==
    IF Len(s) > n
    THEN (IF n >= 0 THEN SubSeq(s, 1, n) ELSE SubSeq(s, 1, Max(0, Len(s) + n)))
    ELSE s

\* lines 766-768: the radio playlist as the remote source holds it now
RadioReadBackStale(pl, sc) == sc.radio
RadioReadBack(pl, sc) == pl.radio

Write(op, playlist, items) == [op |-> op, playlist |-> playlist, items |-> items]

\* lines 430-452: the optional discovery tracks, then the sample of artists
RadioCollect ==
    /\ rpc = "radio"
    /\ radioTracks' = IF scen.includeDiscoverWeeklyInRadio THEN scen.discover ELSE <<>>
    /\ LET keys == Ascending(artistMapKeys(scen)) IN
         chosen' \in Samples(keys, Min(scen.numberOfRadioArtists, Len(keys)))
    /\ ci' = 1
    /\ rpc' = "artist"
    /\ UNCHANGED <<scen, raised, playlists, writes, ti, eligibleSongs, picks, trackMap, mi,
                   selected, decisions, pending, ai>>
    /\ UNCHANGED exceptRun

\* lines 458-479: the next chosen artist, skipped when blacklisted
RadioArtist ==
    /\ rpc = "artist"
    /\ ci <= Len(chosen)
    /\ IF isBlacklisted(scen, ArtistName(chosen[ci]))
       THEN /\ ci' = ci + 1
            /\ UNCHANGED <<rpc, ti, eligibleSongs>>
       ELSE /\ eligibleSongs' = <<>>
            /\ ti' = 1
            /\ rpc' = "track"
            /\ ci' = ci
    /\ UNCHANGED <<scen, raised, playlists, writes, radioTracks, chosen, picks, trackMap, mi,
                   selected, decisions, pending, ai>>
    /\ UNCHANGED exceptRun

\* lines 480-511: one top track of the artist against the filters
RadioTrack(d) ==
    /\ rpc = "track"
    /\ ti <= Len(ArtistTopTracks(chosen[ci]))
    /\ LET tid == ArtistTopTracks(chosen[ci])[ti]
           w == RadioWeight(CountOf(scen, tid), PositionOf(scen, tid), scen.mnum)
           eligible ==
              /\ ~isTitleExcluded(Title(tid), scen.excludedWords)
              /\ scen.removeRadioSongsByWeight => Included(d, w)
       IN eligibleSongs' = IF eligible THEN Append(eligibleSongs, tid) ELSE eligibleSongs
    /\ ti' = ti + 1
    /\ UNCHANGED <<scen, raised, rpc, playlists, writes, radioTracks, chosen, ci, picks, trackMap,
                   mi, selected, decisions, pending, ai>>
    /\ UNCHANGED exceptRun

\* lines 514-526: the selection from the artist's pool
RadioSelect ==
    /\ rpc = "track"
    /\ ti > Len(ArtistTopTracks(chosen[ci]))
    /\ LET numToSelect == Min(scen.radioArtistSongs, Len(eligibleSongs)) IN
         \E selectedSongs \in
               IF eligibleSongs = <<>> THEN {<<>>}
               ELSE IF numToSelect >= Len(eligibleSongs) THEN {eligibleSongs}
               ELSE Samples(eligibleSongs, numToSelect) :
            /\ radioTracks' = radioTracks \o selectedSongs
            /\ picks' = Append(picks, [artist |-> chosen[ci], pool |-> eligibleSongs,
                                       selectedSongs |-> selectedSongs])
    /\ ci' = ci + 1
    /\ rpc' = "artist"
    /\ UNCHANGED <<scen, raised, playlists, writes, chosen, ti, eligibleSongs, trackMap, mi,
                   selected, decisions, pending, ai>>
    /\ UNCHANGED exceptRun

\* lines 532-535: clearPlaylist on the radio playlist, then the shuffle
RadioClear ==
    /\ rpc = "artist"
    /\ ci > Len(chosen)
    /\ playlists' = [playlists EXCEPT !.radio = Cleared(@)]
    /\ writes' = Append(writes, Write("clear", "radio", <<>>))
    /\ IF radioTracks # <<>>
       THEN /\ radioTracks' \in Shuffles(radioTracks)
            /\ pending' = radioTracks'
            /\ ai' = 0
            /\ rpc' = "radioAdd"
       ELSE /\ rpc' = "curateStart"
            /\ UNCHANGED <<radioTracks, pending, ai>>
    /\ UNCHANGED <<scen, raised, chosen, ci, ti, eligibleSongs, picks, trackMap, mi, selected, decisions>>
    /\ UNCHANGED exceptRun

AddTarget == IF rpc = "radioAdd" THEN "radio" ELSE "master"

\* lines 257-260: one batch of addTracksToPlaylist
AddTracksBatch ==
    /\ rpc \in {"radioAdd", "masterAdd"}
    /\ ai < Len(pending)
    /\ LET batch == Slice(pending, ai, AddBatch) IN
         /\ playlists' = [playlists EXCEPT ![AddTarget] = @ \o batch]
         /\ writes' = Append(writes, Write("add", AddTarget, batch))
    /\ ai' = ai + AddBatch
    /\ UNCHANGED <<scen, raised, rpc, radioTracks, chosen, ci, ti, eligibleSongs, picks, trackMap,
                   mi, selected, decisions, pending>>
    /\ UNCHANGED exceptRun

\* line 262
AddTracksReturn ==
    /\ rpc \in {"radioAdd", "masterAdd"}
    /\ ai >= Len(pending)
    /\ rpc' = IF rpc = "radioAdd" THEN "curateStart" ELSE "done"
    /\ UNCHANGED <<scen, raised, playlists, writes, radioTracks, chosen, ci, ti, eligibleSongs, picks,
                   trackMap, mi, selected, decisions, pending, ai>>
    /\ UNCHANGED exceptRun

\* lines 687-696: allInfo over set(rawIds), in one of the orders a set can
\* have, and the entries keyed by name and artist
MasterBegin ==
    /\ rpc = "curateStart"
    /\ \E order \in {Ascending(Range(scen.sources)), Reverse(Ascending(Range(scen.sources)))} :
          trackMap' = BuildTrackMap(order)
    /\ mi' = 1
    /\ selected' = <<>>
    /\ rpc' = "curate"
    /\ UNCHANGED <<scen, raised, playlists, writes, radioTracks, chosen, ci, ti, eligibleSongs, picks,
                   decisions, pending, ai>>
    /\ UNCHANGED exceptRun

\* lines 698-750: one entry of trackMap
MasterTrack(d) ==
    /\ rpc = "curate"
    /\ mi <= Len(trackMap)
    /\ LET tid == trackMap[mi]
           artistId == TrackInfo(tid).artistId
           deduct == ArtistDeducted(scen, tid)
           w == MasterWeight(CountOf(scen, tid), PositionOf(scen, tid), scen.mnum,
                             deduct, artistCount(scen, artistId))
           base == MasterWeight(CountOf(scen, tid), PositionOf(scen, tid), scen.mnum, FALSE, 0)
       IN
         IF isBlacklisted(scen, TrackInfo(tid).artistName)
         THEN /\ decisions' = Append(decisions, [tid |-> tid, blacklisted |-> TRUE, weight |-> 0,
                                                 deduction |-> 0, included |-> FALSE])
              /\ selected' = selected
         ELSE /\ decisions' = Append(decisions, [tid |-> tid, blacklisted |-> FALSE, weight |-> w,
                                                 deduction |-> base - w,
                                                 included |-> Included(d, w)])
              /\ selected' = IF Included(d, w) THEN Append(selected, tid) ELSE selected
    /\ mi' = mi + 1
    /\ UNCHANGED <<scen, raised, rpc, playlists, writes, radioTracks, chosen, ci, ti, eligibleSongs,
                   picks, trackMap, pending, ai>>
    /\ UNCHANGED exceptRun

\* lines 753-779, 784-785: shuffle, truncation and the radio tracks read
\* back from the radio playlist; nothing is written when nothing was selected
MasterFinalize ==
    /\ rpc = "curate"
    /\ mi > Len(trackMap)
    /\ IF selected # <<>>
       THEN /\ \E shuffled \in Shuffles(selected) :
                 LET kept == Truncate(shuffled, scen.masterSongs)
                     radioNow == RadioReadBack(playlists, scen)
                 IN
                   /\ selected' = kept
                   /\ IF scen.includeRadioInMaster /\ radioNow # <<>>
                      THEN pending' \in Shuffles(kept \o radioNow)
                      ELSE pending' = kept
            /\ ai' = 0
            /\ rpc' = "masterClear"
       ELSE /\ rpc' = "done"
            /\ UNCHANGED <<selected, pending, ai>>
    /\ UNCHANGED <<scen, raised, playlists, writes, radioTracks, chosen, ci, ti, eligibleSongs, picks,
                   trackMap, mi, decisions>>
    /\ UNCHANGED exceptRun

\* line 781
MasterClear ==
    /\ rpc = "masterClear"
    /\ playlists' = [playlists EXCEPT !.master = Cleared(@)]
    /\ writes' = Append(writes, Write("clear", "master", <<>>))
    /\ rpc' = "masterAdd"
    /\ UNCHANGED <<scen, raised, radioTracks, chosen, ci, ti, eligibleSongs, picks, trackMap, mi,
                   selected, decisions, pending, ai>>
    /\ UNCHANGED exceptRun

RunInit ==
    /\ ExecutorIdle
    /\ PagesIdle
    /\ BatchesIdle
    /\ WeightIdle
    /\ scen \in Scenarios
    /\ raised = NoRaise
    /\ rpc = "radio"
    /\ playlists = [radio |-> scen.radio, master |-> scen.master]
    /\ writes = <<>>
    /\ radioTracks = <<>>
    /\ chosen = <<>>
    /\ ci = 0
    /\ ti = 0
    /\ eligibleSongs = <<>>
    /\ picks = <<>>
    /\ trackMap = <<>>
    /\ mi = 0
    /\ selected = <<>>
    /\ decisions = <<>>
    /\ pending = <<>>
    /\ ai = 0

RunNext ==
    \/ RadioCollect
    \/ RadioArtist
    \/ \E d \in 0..(DrawDen - 1) : RadioTrack(d)
    \/ RadioSelect
    \/ RadioClear
    \/ AddTracksBatch
    \/ AddTracksReturn
    \/ MasterBegin
    \/ \E d \in 0..(DrawDen - 1) : MasterTrack(d)
    \/ MasterFinalize
    \/ MasterClear

RunSpec == RunInit /\ [][RunNext]_vars

\* occurrences of an artist's tracks in the overplayed playlist
ArtistOccurrences(sc, a) ==
    SumCounts(sc, {tid \in Range(sc.tooMuch) : PrimaryArtist(tid) = a})

AddedItems(playlist) ==
    UNION {Range(writes[k].items) :
             k \in {l \in DOMAIN writes : writes[l].op = "add" /\ writes[l].playlist = playlist}}

\* C16: with the artist blacklist enabled, no track whose primary artist has
\* 10 or more occurrences in the overplayed playlist is written to the radio
\* playlist or to the master playlist.
C16_BlacklistedArtistNeverWritten ==
    scen.artistBlacklist =>
        \A tid \in AddedItems("radio") \cup AddedItems("master") :
            PrimaryArtist(tid) = 0 \/ ArtistOccurrences(scen, PrimaryArtist(tid)) < BlacklistAt

\* C17: a track whose title contains an excluded word, whatever the case of
\* the letters, is in no eligible pool of the radio generator and not in the
\* included set of master curation.
C17_ExcludedTitleNeverSelected ==
    /\ \A tid \in Range(eligibleSongs) : ~isTitleExcluded(Title(tid), scen.excludedWords)
    /\ \A k \in DOMAIN picks : \A tid \in Range(picks[k].pool) :
          ~isTitleExcluded(Title(tid), scen.excludedWords)
    /\ \A tid \in Range(selected) : ~isTitleExcluded(Title(tid), scen.excludedWords)

\* C18: with the artist-overplay feature enabled, the extra deduction of an
\* evaluated track is 3 * modifier when its artist has 6 or more occurrences
\* in the overplayed playlist, 2 * modifier for 3 to 5 and 0 otherwise, the
\* occurrences counted over the whole overplayed playlist.
C18_ArtistDeductionByAggregate ==
    scen.artistIHearTooMuch =>
        \A k \in DOMAIN decisions :
            (~decisions[k].blacklisted /\ PrimaryArtist(decisions[k].tid) # 0) =>
                decisions[k].deduction =
                    ArtistFactor(ArtistOccurrences(scen, PrimaryArtist(decisions[k].tid))) * scen.mnum

IsDuplicateFree(s) == \A i, j \in DOMAIN s : i # j => s[i] # s[j]

\* the chosen artists that are not blacklisted, in order
Processed(k) == SelectSeq(SubSeq(chosen, 1, k), LAMBDA a : ~isBlacklisted(scen, ArtistName(a)))

\* C19: the chosen artists are min(N, artists of the master playlist)
\* pairwise distinct artists of the master playlist, and for every chosen
\* artist that is not blacklisted the selected tracks are a duplicate-free
\* subset of its eligible pool of size min(songs per artist, pool size): the
\* whole pool when it is not larger than the requested count.
C19_DistinctArtistsBoundedSelections ==
    rpc # "radio" =>
        /\ Len(chosen) = Min(scen.numberOfRadioArtists, Cardinality(artistMapKeys(scen)))
        /\ IsDuplicateFree(chosen)
        /\ Range(chosen) \subseteq artistMapKeys(scen)
        /\ [k \in DOMAIN picks |-> picks[k].artist]
              = Processed(IF rpc = "track" THEN ci - 1 ELSE Min(ci - 1, Len(chosen)))
        /\ \A k \in DOMAIN picks :
              LET pool == picks[k].pool
                  sel == picks[k].selectedSongs
              IN /\ IsDuplicateFree(sel)
                 /\ Range(sel) \subseteq Range(pool)
                 /\ Len(sel) = Min(scen.radioArtistSongs, Len(pool))
                 /\ Len(pool) <= scen.radioArtistSongs => sel = pool

\* fewer artists chosen than the master playlist has, and a selection that
\* is a proper part of its pool
C19_Witness ==
    /\ rpc = "curateStart"
    /\ Len(chosen) >= 1
    /\ Len(chosen) < Cardinality(artistMapKeys(scen))
    /\ \E k \in DOMAIN picks :
          /\ Len(picks[k].selectedSongs) >= 1
          /\ Len(picks[k].selectedSongs) < Len(picks[k].pool)

RECURSIVE Flatten(_)
Flatten(seqs) == IF seqs = <<>> THEN <<>> ELSE Head(seqs) \o Flatten(Tail(seqs))

\* the combined list of this run: the discovery tracks, then the selections
Combined ==
    (IF scen.includeDiscoverWeeklyInRadio THEN scen.discover ELSE <<>>)
        \o Flatten([k \in DOMAIN picks |-> picks[k].selectedSongs])

RadioFinished == rpc \in {"curateStart", "curate", "masterClear", "masterAdd", "done"}

RadioWrites == SelectSeq(writes, LAMBDA w : w.playlist = "radio")

\* C20: when generateRadio has finished a run without failures, the radio
\* playlist holds exactly the combined list of this run as a multiset,
\* whatever it held before, so it is empty when the combined list is; and
\* the clear call on the radio playlist comes before every add call on it.
C20_RadioReplacedClearFirst ==
    /\ RadioWrites # <<>> =>
          /\ RadioWrites[1].op = "clear"
          /\ \A k \in 2..Len(RadioWrites) : RadioWrites[k].op = "add"
    /\ RadioFinished =>
          /\ RadioWrites # <<>>
          /\ \A tid \in TrackIds \cup Range(playlists.radio) :
                Occurrences(playlists.radio, tid) = Occurrences(Combined, tid)
          /\ Combined = <<>> => playlists.radio = <<>>

\* the radio playlist held a track before, and the combined list of
\* discovery tracks and a selection went out in two add calls
C20_Witness ==
    /\ rpc = "curateStart"
    /\ scen.radio # <<>>
    /\ Len(RadioWrites) = 3
    /\ picks # <<>>
    /\ picks[1].selectedSongs # <<>>
    /\ Len(playlists.radio) > AddBatch

\* C21: when master curation has finished a run without failures, the master
\* playlist holds exactly the final track list of this run as a multiset
\* (the truncated included set, plus the radio playlist's tracks when
\* includeRadioInMaster is set), whatever it held before, also when the
\* included set is empty.
C21_MasterReplaced ==
    rpc = "done" =>
        \A tid \in TrackIds \cup Range(playlists.master) :
            Occurrences(playlists.master, tid) =
                Occurrences(selected, tid)
                  + (IF scen.includeRadioInMaster THEN Occurrences(playlists.radio, tid) ELSE 0)

IncludedSet == {decisions[k].tid : k \in {l \in DOMAIN decisions : decisions[l].included}}

MasterWriting == rpc \in {"masterClear", "masterAdd"} \/ (rpc = "done" /\ selected # <<>>)

MasterAdds == SelectSeq(writes, LAMBDA w : w.playlist = "master" /\ w.op = "add")

\* C22: the curated tracks written to the master playlist are at most
\* masterSongs tracks of the included set, and the final list is these plus
\* the radio playlist's tracks when includeRadioInMaster is set, so at most
\* masterSongs plus the radio playlist's size entries: the truncation comes
\* before the radio tracks are folded in.
C22_TruncatedBeforeRadioFolded ==
    MasterWriting =>
        /\ Len(selected) <= scen.masterSongs
        /\ Range(selected) \subseteq IncludedSet
        /\ IsDuplicateFree(selected)
        /\ Len(pending) <= scen.masterSongs + Len(playlists.radio)
        /\ \A tid \in TrackIds :
              Occurrences(pending, tid) =
                  Occurrences(selected, tid)
                    + (IF scen.includeRadioInMaster THEN Occurrences(playlists.radio, tid) ELSE 0)
        /\ Flatten([k \in DOMAIN MasterAdds |-> MasterAdds[k].items])
              = SubSeq(pending, 1, Min(ai, Len(pending)))

\* more tracks included than masterSongs, and the radio tracks on top
C22_Witness ==
    /\ rpc = "done"
    /\ scen.includeRadioInMaster
    /\ Cardinality(IncludedSet) > scen.masterSongs
    /\ Len(selected) = scen.masterSongs
    /\ playlists.radio # <<>>
    /\ Len(playlists.master) = scen.masterSongs + Len(playlists.radio)

(***************************************************************************)
(* The run with failures: a logical call of a required operation can end   *)
(* with an error once its retries are used up.  main, generateRadio,       *)
(* clearPlaylist and addTracksToPlaylist have no handler around these      *)
(* calls; the handler of lines 798-802 reports the error and exits.        *)
(***************************************************************************)
RequiredOps == {"lookup", "create", "list", "clear", "add"}

\* the calls whose errors a fetch catches itself (lines 234-245, 287-296)
SwallowedOps == {"tracks", "artist_top_tracks"}
PropagatesNever(op) == FALSE
Propagates(op) == op \notin SwallowedOps

\* the required operations the next step of the run issues
RequiredOpsAt ==
    CASE rpc = "radio" ->
            {"lookup", "list"} \cup (IF scen.master = <<>> THEN {"create"} ELSE {})
      [] rpc = "artist" /\ ci > Len(chosen) ->
            {"lookup", "clear"} \cup (IF scen.radio = <<>> THEN {"create"} ELSE {})
      [] rpc \in {"radioAdd", "masterAdd"} /\ ai < Len(pending) -> {"add"}
      [] rpc = "curateStart" -> {"lookup", "list"}
      [] rpc = "curate" /\ mi > Len(trackMap) /\ selected # <<>> /\ scen.includeRadioInMaster ->
            {"lookup", "list"}
      [] rpc = "masterClear" -> {"clear"}
      [] OTHER -> {}

\* lines 791-802: the error of a required operation leaves main and ends
\* the process
RequiredCallFails(op) ==
    /\ raised = NoRaise
    /\ op \in RequiredOpsAt
    /\ raised' = [op |-> op, writes |-> Len(writes), playlists |-> playlists]
    /\ rpc' = IF Propagates(op) THEN "failed" ELSE rpc
    /\ UNCHANGED <<scen, playlists, writes, radioTracks, chosen, ci, ti, eligibleSongs, picks,
                   trackMap, mi, selected, decisions, pending, ai>>
    /\ UNCHANGED exceptRun

FaultNext ==
    \/ RunNext
    \/ \E op \in RequiredOps : RequiredCallFails(op)

FaultSpec == RunInit /\ [][FaultNext]_vars

\* what a playlist holds after the modifying calls made on it
AfterWrites(playlist, before) ==
    LET ws == SelectSeq(writes, LAMBDA w : w.playlist = playlist) IN
      IF ws = <<>> THEN before
      ELSE Flatten([k \in 1..(Len(ws) - 1) |-> ws[k + 1].items])

\* C23: when a required operation (lookup, creation, listing, clear, add)
\* has used up its retries the failure ends the run: no modifying call is
\* issued afterwards and what was written stays as it is, so an add that
\* fails after the clear leaves the playlist cleared or partially filled.
C23_FailureEndsRunNoRollback ==
    raised # NoRaise =>
        /\ rpc = "failed"
        /\ Len(writes) = raised.writes
        /\ playlists = raised.playlists
        /\ playlists.radio = AfterWrites("radio", scen.radio)
        /\ playlists.master = AfterWrites("master", scen.master)
        /\ raised.op = "add" =>
              \E t \in {"radio", "master"} :
                  /\ writes[Len(writes)].playlist = t
                  /\ Len(playlists[t]) < Len(pending)
                  /\ playlists[t] = SubSeq(pending, 1, Len(playlists[t]))

\* the second add on the master playlist failed: the first batch stays
C23_Witness ==
    /\ rpc = "failed"
    /\ raised.op = "add"
    /\ Len(pending) > AddBatch
    /\ writes[Len(writes)] = Write("add", "master", SubSeq(pending, 1, AddBatch))
    /\ playlists.master = SubSeq(pending, 1, AddBatch)

CurationFinished == rpc \in {"masterClear", "masterAdd", "done"} /\ trackMap # <<>>

\* C24: master curation runs the weighted filter exactly once for every
\* distinct track id resolved from the source playlists; two ids are never
\* collapsed into one decision, also when they share title and artist name.
C24_OneDecisionPerIdentifier ==
    CurationFinished =>
        /\ {decisions[k].tid : k \in DOMAIN decisions} = Range(scen.sources)
        /\ Len(decisions) = Cardinality(Range(scen.sources))

\* C25: getTracksInfo drops the ids that are None, empty or no string before
\* batching; every batch it sends holds between 1 and 50 ids, the batches
\* sent make up, in order, the filtered input list, and no call is made when
\* the filtered list is empty.
C25_BatchesCoverFilteredInput ==
    job.name = "getTracksInfo" =>
        LET filtered == SelectSeq(job.input, LAMBDA tid : tid # 0) IN
          /\ \A k \in DOMAIN sent :
                /\ Len(sent[k]) >= 1
                /\ Len(sent[k]) <= batchSize
                /\ 0 \notin Range(sent[k])
          /\ Flatten(sent) = SubSeq(filtered, 1, Len(Flatten(sent)))
          /\ bpc = "done" => Flatten(sent) = filtered
          /\ filtered = <<>> => sent = <<>>

\* an input with unusable ids went out in full batches and a shorter last one
C25_Witness ==
    /\ job.name = "getTracksInfo"
    /\ bpc = "done"
    /\ 0 \in Range(job.input)
    /\ Len(sent) >= 2
    /\ Len(sent[1]) = batchSize
    /\ Len(sent[Len(sent)]) < batchSize

\* only unusable ids: the fetch returned without a call
C25_WitnessNoCall ==
    /\ job.name = "getTracksInfo"
    /\ bpc = "done"
    /\ job.input # <<>>
    /\ sent = <<>>

\* C26: every backoff sleep of the executor (after a 429, a 503 or another
\* 5xx) is followed by another attempt of the same call: it never sleeps
\* after the attempt that uses up the cap of 5.
C26_NoSleepAfterLastAttempt ==
    sleptSince # <<>> => retryCount < maxRetries

RadioAdded == Flatten([k \in 1..(Len(RadioWrites) - 1) |-> RadioWrites[k + 1].items])

\* C27: within one run the radio playlist is rewritten before master
\* curation reads it and before the master playlist is rewritten: the
\* chosen artists come from the master playlist as the previous run left
\* it, and the radio tracks folded into master are exactly the tracks
\* written to the radio playlist in this run.
C27_RadioRewrittenBeforeMaster ==
    /\ \A i, j \in DOMAIN writes :
          (i < j /\ writes[i].playlist = "master") => writes[j].playlist = "master"
    /\ rpc \in {"radio", "artist", "track", "radioAdd"} => playlists.master = scen.master
    /\ rpc # "radio" =>
          Range(chosen) \subseteq {PrimaryArtist(tid) : tid \in Range(scen.master)}
    /\ MasterWriting =>
          /\ RadioWrites # <<>>
          /\ RadioWrites[1].op = "clear"
          /\ playlists.radio = RadioAdded
          /\ scen.includeRadioInMaster =>
                \A tid \in TrackIds :
                    Occurrences(pending, tid) - Occurrences(selected, tid)
                        = Occurrences(RadioAdded, tid)

\* the radio playlist of the previous run held a track that this run's
\* radio does not: master got this run's radio tracks only
C27_Witness ==
    /\ rpc = "done"
    /\ scen.includeRadioInMaster
    /\ selected # <<>>
    /\ RadioAdded # <<>>
    /\ \E tid \in Range(scen.radio) : tid \notin Range(RadioAdded) /\ tid \notin Range(playlists.master)
    /\ \A tid \in Range(RadioAdded) : tid \in Range(playlists.master)

\* the weight the other copy of the filter computes for the same track
OtherCopyWeight ==
    IF track.context = "radio"
    THEN MasterWeight(track.count, track.pos, track.mnum, FALSE, 0)
    ELSE RadioWeight(track.count, track.pos, track.mnum)

Comparable == Drawing /\ (track.context = "radio" \/ ~track.artistIHearTooMuch)

\* C28: the two copies of the weighted filter agree: for every overplay
\* count, rank (or none), modifier and draw, the radio filter, which clamps,
\* and the master filter without the artist-overplay feature, which does
\* not, take the same decision.
C28_FilterCopiesAgree ==
    Comparable =>
        /\ \A d \in 0..(DrawDen - 1) : Included(d, weight) = Included(d, OtherCopyWeight)
        /\ wpc = "decided" =>
              \E d \in 0..(DrawDen - 1) :
                  included = Included(d, weight) /\ included = Included(d, OtherCopyWeight)

\* master left the weight below 0 where the radio copy has 0: both exclude
C28_Witness ==
    /\ wpc = "decided"
    /\ track.context = "master"
    /\ ~track.artistIHearTooMuch
    /\ weight < 0
    /\ OtherCopyWeight = 0
    /\ ~included

====
